---- MODULE Spec2Model ----
(***************************************************************************)
(* Model of main.py: the appointment submission service.                   *)
(*                                                                         *)
(* POST /appointments (create_appointment) persists the appointment with   *)
(* create_document, then calls the two optional integrations               *)
(* _append_to_google_sheets and _send_whatsapp_notification and returns    *)
(* the aggregated response.                                                *)
(*                                                                         *)
(* Strings of the program that are only compared or tested for truth are   *)
(* TLA+ strings; the Python value None is the sentinel NONE.  Texts that    *)
(* are concatenated or sliced (the HTTP 500 detail) are sequences of       *)
(* one-character strings.                                                   *)
(*                                                                         *)
(* The model follows two submissions (Runs).  Each submission is served by *)
(* a process whose environment is env[r]; the handler of one submission is *)
(* a sequence of steps, one per blocking call of create_appointment and of  *)
(* the spreadsheet adapter.                                                *)
(***************************************************************************)
EXTENDS Integers, Sequences, FiniteSets, TLC

VARIABLES
    env,            \* env[r]: os.environ of the process serving submission r
    inbox,          \* inbox[r]: the JSON body of submission r, in flight
    pc,             \* pc[r]: position of submission r in create_appointment
    appointment,    \* appointment[r]: the validated Appointment
    inserted_id,    \* inserted_id[r]: local of create_appointment
    sheet_ws,       \* sheet_ws[r]: local of create_appointment
    whatsapp_sid,   \* whatsapp_sid[r]: local of create_appointment
    response,       \* response[r]: what the HTTP caller receives
    db,             \* db[r]: calls of create_document made for r
    sheets,         \* sheets[r]: what _append_to_google_sheets did for r
    whatsapp,       \* whatsapp[r]: what _send_whatsapp_notification did for r
    dbenv,          \* DATABASE_URL and DATABASE_NAME of os.environ
    persistence,    \* what the database module does when GET /test uses it
    diag            \* the GET /test request: its position and its response

vars == <<env, inbox, pc, appointment, inserted_id, sheet_ws, whatsapp_sid,
          response, db, sheets, whatsapp, dbenv, persistence, diag>>

---------------------------------------------------------------------------
(* Bounds *)

\* longest exception text str(e) raised by create_document
MaxErrLen == 2

\* number of distinct identifiers create_document may return
NumIds == 2

\* longest exception text str(e) met by GET /test
MaxProbeErrLen == 52

\* largest number of collections the database lists
MaxCollections == 11

---------------------------------------------------------------------------
(* Python values *)

NONE == "<None>"

\* Python truthiness of an Optional[str]: None and "" are falsy
Truthy(v) == v # NONE /\ v # ""

\* bool(x)
Bool(v) == Truthy(v)

\* all([...]) over a list of Optional[str]
All(vs) == \A i \in DOMAIN vs : Truthy(vs[i])

\* faulty variant: the value is used as it is, None included
OrLeaks(v, d) == v

\* x or d
Or(v, d) == IF Truthy(v) THEN v ELSE d

\* os.getenv(name): None when the variable is unset
Getenv(e, name) == e[name]

\* faulty variant: the default also replaces an empty value
GetenvDefaultOrEmpty(e, name, default) == IF Truthy(e[name]) THEN e[name] ELSE default

\* os.getenv(name, default): the default only when the variable is unset
GetenvDefault(e, name, default) == IF e[name] = NONE THEN default ELSE e[name]

\* the two submissions the model follows
Runs == {1, 2}

\* s starts with the text p
StartsWith(s, p) == Len(s) >= Len(p) /\ SubSeq(s, 1, Len(p)) = p

\* all sequences over S of length at most n
RECURSIVE SeqsUpTo(_, _)
SeqsUpTo(S, n) ==
    IF n = 0 THEN {<<>>}
    ELSE LET shorter == SeqsUpTo(S, n - 1)
         IN shorter \cup {Append(t, c) : t \in {u \in shorter : Len(u) = n - 1}, c \in S}

---------------------------------------------------------------------------
(* Environment: the named configuration values read with os.getenv *)

\* values of GOOGLE_SERVICE_ACCOUNT_JSON: unset, empty, not JSON, a key file
BlobValues == {NONE, "", "not json", "{service account}"}

\* values of GOOGLE_SHEETS_SPREADSHEET
SpreadsheetValues == {NONE, "", "Clinic"}

\* values of GOOGLE_SHEETS_WORKSHEET
WorksheetValues == {NONE, "", "Log"}

\* values of each of the four messaging variables
TwilioValues == {NONE, "", "v"}

EnvsOver(blobs, books, wss, tw) ==
    [GOOGLE_SERVICE_ACCOUNT_JSON : blobs,
     GOOGLE_SHEETS_SPREADSHEET : books,
     GOOGLE_SHEETS_WORKSHEET : wss,
     TWILIO_ACCOUNT_SID : tw,
     TWILIO_AUTH_TOKEN : tw,
     TWILIO_WHATSAPP_FROM : tw,
     WHATSAPP_TO : tw]

Envs == EnvsOver(BlobValues, SpreadsheetValues, WorksheetValues, TwilioValues)

---------------------------------------------------------------------------
(* The request body and the Appointment schema (schemas.py) *)

\* JSON bodies of POST /appointments: a field is missing (NONE) or a string
AllBodies ==
    [name : {NONE, "Ann"}, email : {NONE, "a@x.com"}, phone : {NONE, "1"},
     department : {NONE, "D"}, date : {NONE, "", "Mon"}, notes : {NONE, "call"}]

\* the bodies submitted: every body with the required fields, and every
\* combination of missing required fields
Bodies ==
    {b \in AllBodies :
        \/ NONE \notin {b.name, b.email, b.phone, b.department}
        \/ b.date = NONE /\ b.notes = NONE}

\* Appointment(**body): the four required fields must be given
ValidAppointment(body) ==
    /\ body.name # NONE
    /\ body.email # NONE
    /\ body.phone # NONE
    /\ body.department # NONE

---------------------------------------------------------------------------
(* The persistence gateway (database.py) *)

\* identifiers create_document may return: opaque non-empty strings
IdPool == <<"65a1", "65a2", "65a3", "65a4">>

Ids == {IdPool[i] : i \in 1..NumIds}

\* characters of an exception text
ErrChars == {"x"}

\* texts str(e) of the exceptions create_document may raise
ErrTexts == SeqsUpTo(ErrChars, MaxErrLen)

\* create_document(collection, data): returns an identifier or raises
CreateDocumentOutcomes ==
    [ok : {TRUE}, id : Ids, err : {<<>>}] \cup [ok : {FALSE}, id : {NONE}, err : ErrTexts]

---------------------------------------------------------------------------
(* The spreadsheet adapter *)

\* The adapter makes up to four blocking calls one after the other:
\* gc.open, sh.worksheet, sh.sheet1 and ws.append_row. Each of them returns
\* or raises on its own, and other requests run between two of them.

\* what raises, if anything, in the adapter up to and including gc.open
OpenFaults == {"none", "import", "credentials", "open"}

\* the spreadsheet when sh.worksheet(...) is called:
\*   named: it has a worksheet with the configured name
\*   raises: the call raises for a reason of its own (a network error, a
\*           rejection)
LookupWorlds == [named : BOOLEAN, raises : BOOLEAN]

\* what ws.append_row(...) does: it returns after the row was written, or
\* it raises, before the row was written or after (the failure came after
\* the service accepted the request)
AppendWorlds ==
    {w \in [raises : BOOLEAN, written : BOOLEAN] : ~w.raises => w.written}

\* the titles the spreadsheet's first worksheet may have
FirstTitles == {"Main"}

\* json.loads(service_account_json) raises unless the text is JSON
JsonLoadsRaises(text) == text # "{service account}"

\* a worksheet titled worksheet_name exists; titles are never empty
WorksheetExists(x, worksheet_name) == x.named /\ worksheet_name # ""

\* what sh.worksheet(worksheet_name) does: it returns the worksheet
\* ("found"), raises because there is none ("missing"), or raises although
\* there is one ("error")
WorksheetLookup(x, worksheet_name) ==
    IF ~WorksheetExists(x, worksheet_name) THEN "missing"
    ELSE IF x.raises THEN "error"
    ELSE "found"

\* sh.worksheet(worksheet_name) returns a worksheet
WorksheetFound(x, worksheet_name) == WorksheetLookup(x, worksheet_name) = "found"

\* the list passed to ws.append_row
SheetRow(a) ==
    <<a.name, a.email, a.phone, a.department, Or(a.date, ""), Or(a.notes, "")>>

\* faulty variant: the check forgets the spreadsheet name
SheetsConfiguredBlobOnly(e) ==
    LET service_account_json == Getenv(e, "GOOGLE_SERVICE_ACCOUNT_JSON")
    IN Truthy(service_account_json)

\* the configuration check of the adapter
SheetsConfigured(e) ==
    LET service_account_json == Getenv(e, "GOOGLE_SERVICE_ACCOUNT_JSON")
        spreadsheet_name == Getenv(e, "GOOGLE_SHEETS_SPREADSHEET")
    IN ~(~Truthy(service_account_json) \/ ~Truthy(spreadsheet_name))

\* the adapter from its first line to sh = gc.open(spreadsheet_name), when
\* f is what raises: whether the configuration check was passed, what
\* raised, and whether the spreadsheet is open
OpenSpreadsheet(e, f) ==
    LET service_account_json == Getenv(e, "GOOGLE_SERVICE_ACCOUNT_JSON")
        raised(g) == [attempted |-> TRUE, fault |-> g, opened |-> FALSE]
    IN IF ~SheetsConfigured(e)
       THEN [attempted |-> FALSE, fault |-> "none", opened |-> FALSE]
       ELSE IF f = "import" THEN raised("import")
       ELSE IF JsonLoadsRaises(service_account_json) THEN raised("json")
       ELSE IF f = "credentials" THEN raised("credentials")
       ELSE IF f = "open" THEN raised("open")
       ELSE [attempted |-> TRUE, fault |-> "none", opened |-> TRUE]

---------------------------------------------------------------------------
(* The messaging adapter *)

\* what the outside world does during one call of the adapter:
\*   fault: the step of the adapter that raises, if any
\*   sid: the identifier the provider gives the created message
\*   created: the provider has created the message; a call that returns
\*            has created it, one that raises may have (the failure came
\*            after the provider accepted the request) or may not
WhatsappFaults == {"none", "import", "create"}

Sids == {"SM1"}

WhatsappWorlds ==
    {y \in [fault : WhatsappFaults, sid : Sids, created : BOOLEAN] :
        /\ y.fault = "none" => y.created
        /\ y.fault = "import" => ~y.created}

\* the f-string body
MessageBody(a) ==
    <<<<"New Appointment Request">>,
      <<"Name: ", a.name>>,
      <<"Email: ", a.email>>,
      <<"Phone: ", a.phone>>,
      <<"Department: ", a.department>>,
      <<"Date: ", Or(a.date, "-")>>,
      <<"Notes: ", Or(a.notes, "-")>>>>

WhatsappSkipped == [ret |-> NONE, attempted |-> FALSE, fault |-> "none", msgs |-> <<>>]

\* the except clause: the error is printed and None returned
WhatsappFailed(f) == [ret |-> NONE, attempted |-> TRUE, fault |-> f, msgs |-> <<>>]

\* faulty variant: the check forgets the recipient
WhatsappConfiguredNoRecipient(e) ==
    LET account_sid == Getenv(e, "TWILIO_ACCOUNT_SID")
        auth_token == Getenv(e, "TWILIO_AUTH_TOKEN")
        from_whatsapp == Getenv(e, "TWILIO_WHATSAPP_FROM")
    IN All(<<account_sid, auth_token, from_whatsapp>>)

\* the configuration check of the adapter
WhatsappConfigured(e) ==
    LET account_sid == Getenv(e, "TWILIO_ACCOUNT_SID")
        auth_token == Getenv(e, "TWILIO_AUTH_TOKEN")
        from_whatsapp == Getenv(e, "TWILIO_WHATSAPP_FROM")
        to_whatsapp == Getenv(e, "WHATSAPP_TO")
    IN ~(~All(<<account_sid, auth_token, from_whatsapp, to_whatsapp>>))

\* _send_whatsapp_notification(appointment) in environment e and world y
SendWhatsappNotification(e, a, y) ==
    LET from_whatsapp == Getenv(e, "TWILIO_WHATSAPP_FROM")
        to_whatsapp == Getenv(e, "WHATSAPP_TO")
        sent == <<[body |-> MessageBody(a), from_ |-> from_whatsapp,
                   to |-> to_whatsapp]>>
    IN IF ~WhatsappConfigured(e) THEN WhatsappSkipped
       ELSE IF y.fault = "import" THEN WhatsappFailed("import")
       ELSE IF y.fault = "create"
            THEN [WhatsappFailed("create") EXCEPT
                     !.msgs = IF y.created THEN sent ELSE <<>>]
       ELSE [ret |-> y.sid, attempted |-> TRUE, fault |-> "none", msgs |-> sent]

---------------------------------------------------------------------------
(* Responses *)

NoResponse == [status |-> 0]

\* the text "Database error: "
DatabaseErrorPrefix ==
    <<"D", "a", "t", "a", "b", "a", "s", "e", " ", "e", "r", "r", "o", "r", ":", " ">>

\* faulty variant: the detail is the bare exception text
DatabaseErrorBare(e) == [status |-> 500, detail |-> e]

\* HTTPException(status_code=500, detail=f"Database error: {str(e)}")
DatabaseError(e) == [status |-> 500, detail |-> DatabaseErrorPrefix \o e]

\* the rejection FastAPI sends when the body does not validate
ValidationError == [status |-> 422]

\* faulty variant: the two flags are exchanged
SuccessResponseSwapped(id, ws, sid) ==
    [status |-> 200, ok |-> TRUE, id |-> id,
     google_sheets |-> Bool(sid), whatsapp |-> Bool(ws)]

\* the dict create_appointment returns
SuccessResponse(id, ws, sid) ==
    [status |-> 200, ok |-> TRUE, id |-> id,
     google_sheets |-> Bool(ws), whatsapp |-> Bool(sid)]

---------------------------------------------------------------------------
(* GET /test: the diagnostics probe test_database *)

\* str(e)[:50]: the number of characters kept of an exception text
ErrorLimit == 50

\* collections[:10]: the number of collection names shown
ListLimit == 10

\* s[:n]
Slice(s, n) == IF Len(s) <= n THEN s ELSE SubSeq(s, 1, n)

\* values of DATABASE_URL and of DATABASE_NAME: unset, empty, set
DbEnvs == [DATABASE_URL : {NONE, "", "mongodb://h"}, DATABASE_NAME : {NONE, "", "clinic"}]

\* exception texts met by the probe: short ones and ones around ErrorLimit
ProbeErrTexts ==
    {t \in SeqsUpTo(ErrChars, MaxProbeErrLen) : Len(t) <= 1 \/ Len(t) >= ErrorLimit - 1}

\* names of the collections of the database
CollectionPool ==
    <<"c01", "c02", "c03", "c04", "c05", "c06", "c07", "c08", "c09", "c10", "c11", "c12">>

CollectionLists == {[i \in 1..n |-> CollectionPool[i]] : n \in 0..MaxCollections}

\* the states of persistence the probe can meet:
\*   import: "from database import db" succeeds, raises ImportError, or
\*           raises another exception with text err
\*   handle: db is not None; has_name, name: hasattr(db, 'name'), db.name
\*   listing: db.list_collection_names() returns collections or raises an
\*           exception with text list_err
NoPersistence ==
    [import |-> "ImportError", err |-> <<>>, handle |-> FALSE, has_name |-> FALSE,
     name |-> NONE, listing |-> "none", list_err |-> <<>>, collections |-> <<>>]

PersistenceStates ==
    {NoPersistence}
    \cup {[NoPersistence EXCEPT !.import = "Exception", !.err = t] : t \in ProbeErrTexts}
    \cup {[NoPersistence EXCEPT !.import = "ok"]}
    \cup {[NoPersistence EXCEPT !.import = "ok", !.handle = TRUE, !.has_name = h,
                                !.name = IF h THEN "clinicdb" ELSE NONE,
                                !.listing = "ok", !.collections = c] :
            h \in BOOLEAN, c \in CollectionLists}
    \cup {[NoPersistence EXCEPT !.import = "ok", !.handle = TRUE, !.has_name = h,
                                !.name = IF h THEN "clinicdb" ELSE NONE,
                                !.listing = "raises", !.list_err = t] :
            h \in BOOLEAN, t \in ProbeErrTexts}

\* The status texts; the source starts them with a check mark (written
\* "(ok) " here), a cross ("(x) ") or a warning sign ("(!)  ").
\* response = {...}: the dict the probe starts from
InitialDiagnostics ==
    [backend |-> "(ok) Running",
     database |-> <<"(x) Not Available">>,
     database_url |-> NONE,
     database_name |-> NONE,
     connection_status |-> "Not Connected",
     collections |-> <<>>]

\* the inner try: list the collections to verify connectivity
ListCollections(resp, w) ==
    IF w.listing = "ok"
    THEN [resp EXCEPT !.collections = Slice(w.collections, ListLimit),
                      !.database = <<"(ok) Connected & Working">>]
    ELSE [resp EXCEPT !.database =
            <<"(!)  Connected but Error: ">> \o Slice(w.list_err, ErrorLimit)]

\* faulty variant: the status is "Connected" only once the listing worked
InspectHandleAfterListing(resp, w) ==
    IF w.handle
    THEN LET listed == ListCollections(
                 [resp EXCEPT !.database = <<"(ok) Available">>,
                              !.database_url = "(ok) Configured",
                              !.database_name =
                                  IF w.has_name THEN w.name ELSE "(ok) Connected"], w)
         IN IF w.listing = "ok"
            THEN [listed EXCEPT !.connection_status = "Connected"]
            ELSE listed
    ELSE [resp EXCEPT !.database = <<"(!)  Available but not initialized">>]

\* if db is not None: ... else: ...
InspectHandle(resp, w) ==
    IF w.handle
    THEN ListCollections(
             [resp EXCEPT !.database = <<"(ok) Available">>,
                          !.database_url = "(ok) Configured",
                          !.database_name =
                              IF w.has_name THEN w.name ELSE "(ok) Connected",
                          !.connection_status = "Connected"], w)
    ELSE [resp EXCEPT !.database = <<"(!)  Available but not initialized">>]

\* the outer try: import the database module and inspect its handle
ImportDatabase(resp, w) ==
    IF w.import = "ImportError"
    THEN [resp EXCEPT !.database =
            <<"(x) Database module not found (run enable-database first)">>]
    ELSE IF w.import = "Exception"
    THEN [resp EXCEPT !.database = <<"(x) Error: ">> \o Slice(w.err, ErrorLimit)]
    ELSE InspectHandle(resp, w)

\* faulty variant: the environment is not looked at
CheckEnvironmentSkipped(resp, de) == resp

\* the two lines that check the environment variables
CheckEnvironment(resp, de) ==
    [resp EXCEPT
        !.database_url =
            IF Truthy(Getenv(de, "DATABASE_URL")) THEN "(ok) Set" ELSE "(x) Not Set",
        !.database_name =
            IF Truthy(Getenv(de, "DATABASE_NAME")) THEN "(ok) Set" ELSE "(x) Not Set"]

\* faulty variant: an exception of the listing is not caught and fails the
\* request
TestDatabaseUncaught(de, w) ==
    IF w.import = "ok" /\ w.handle /\ w.listing = "raises"
    THEN [status |-> 500]
    ELSE [status |-> 200,
          body |-> CheckEnvironment(ImportDatabase(InitialDiagnostics, w), de)]

\* test_database() with environment de and persistence w: the HTTP answer
TestDatabase(de, w) ==
    [status |-> 200,
     body |-> CheckEnvironment(ImportDatabase(InitialDiagnostics, w), de)]

\* no GET /test request
NoProbe == [pc |-> "off", response |-> NoResponse]

\* the state of the probe when no GET /test request is made
ProbeOff ==
    /\ dbenv = [DATABASE_URL |-> NONE, DATABASE_NAME |-> NONE]
    /\ persistence = NoPersistence
    /\ diag = NoProbe

\* the state of the probe when a GET /test request arrives, for every
\* environment and every state of persistence
ProbeArrives ==
    /\ dbenv \in DbEnvs
    /\ persistence \in PersistenceStates
    /\ diag = [pc |-> "idle", response |-> NoResponse]

\* GET /test
GetTest ==
    /\ diag.pc = "idle"
    /\ diag' = [pc |-> "done", response |-> TestDatabase(dbenv, persistence)]
    /\ UNCHANGED <<env, inbox, pc, appointment, inserted_id, sheet_ws, whatsapp_sid,
                   response, db, sheets, whatsapp, dbenv, persistence>>

---------------------------------------------------------------------------
(* State machine of POST /appointments *)

NoCalls == [calls |-> 0, ok |-> 0, id |-> NONE]

\* ws: the title of the worksheet the adapter holds in its local ws
NoSheets ==
    [calls |-> 0, attempts |-> 0, fault |-> "none", lookup |-> "none", ws |-> NONE,
     rows |-> <<>>]

NoWhatsapp == [calls |-> 0, attempts |-> 0, fault |-> "none", msgs |-> <<>>]

\* no Appointment has been built
NoAppointment ==
    [name |-> NONE, email |-> NONE, phone |-> NONE, department |-> NONE,
     date |-> NONE, notes |-> NONE]

\* the state when the submissions `active` arrive, with bodies box, in
\* environments e
InitWith(e, box, active) ==
    /\ env = e
    /\ inbox = box
    /\ pc = [r \in Runs |-> IF r \in active THEN "idle" ELSE "off"]
    /\ appointment = [r \in Runs |-> NoAppointment]
    /\ inserted_id = [r \in Runs |-> NONE]
    /\ sheet_ws = [r \in Runs |-> NONE]
    /\ whatsapp_sid = [r \in Runs |-> NONE]
    /\ response = [r \in Runs |-> NoResponse]
    /\ db = [r \in Runs |-> NoCalls]
    /\ sheets = [r \in Runs |-> NoSheets]
    /\ whatsapp = [r \in Runs |-> NoWhatsapp]

\* one submission, in any environment
Init ==
    /\ \E e \in Envs, body \in Bodies :
          InitWith([r \in Runs |-> e],
                   [r \in Runs |-> IF r = 1 THEN body ELSE NoAppointment], {1})
    /\ ProbeOff

\* faulty variant: the handler runs on a body that did not validate
SubmitUnvalidated(r) ==
    /\ pc[r] = "idle"
    /\ appointment' = [appointment EXCEPT ![r] = inbox[r]]
    /\ pc' = [pc EXCEPT ![r] = "persist"]
    /\ UNCHANGED <<dbenv, persistence, diag, env, inbox, inserted_id, sheet_ws, whatsapp_sid, response,
                   db, sheets, whatsapp>>

\* FastAPI builds the Appointment from the body before it calls the handler
Submit(r) ==
    /\ pc[r] = "idle"
    /\ IF ValidAppointment(inbox[r])
       THEN /\ appointment' = [appointment EXCEPT ![r] = inbox[r]]
            /\ pc' = [pc EXCEPT ![r] = "persist"]
            /\ UNCHANGED response
       ELSE /\ response' = [response EXCEPT ![r] = ValidationError]
            /\ pc' = [pc EXCEPT ![r] = "rejected"]
            /\ UNCHANGED appointment
    /\ UNCHANGED <<dbenv, persistence, diag, env, inbox, inserted_id, sheet_ws, whatsapp_sid, db, sheets, whatsapp>>

\* faulty variant: a failed insert is swallowed and the handler goes on
PersistSwallowsError(r) ==
    /\ pc[r] = "persist"
    /\ \E o \in CreateDocumentOutcomes :
          /\ db' = [db EXCEPT ![r] = [calls |-> @.calls + 1,
                                      ok |-> @.ok + (IF o.ok THEN 1 ELSE 0),
                                      id |-> o.id]]
          /\ inserted_id' = [inserted_id EXCEPT ![r] = o.id]
    /\ pc' = [pc EXCEPT ![r] = "sheets"]
    /\ UNCHANGED <<dbenv, persistence, diag, env, inbox, appointment, sheet_ws, whatsapp_sid, response,
                   sheets, whatsapp>>

\* faulty variant: inserted_id is one module-level variable shared by all
\* requests
PersistShared(r) ==
    /\ pc[r] = "persist"
    /\ \E o \in CreateDocumentOutcomes :
          /\ db' = [db EXCEPT ![r] = [calls |-> @.calls + 1,
                                      ok |-> @.ok + (IF o.ok THEN 1 ELSE 0),
                                      id |-> o.id]]
          /\ IF o.ok
             THEN /\ inserted_id' = [q \in Runs |-> o.id]
                  /\ pc' = [pc EXCEPT ![r] = "sheets"]
                  /\ UNCHANGED response
             ELSE /\ response' = [response EXCEPT ![r] = DatabaseError(o.err)]
                  /\ pc' = [pc EXCEPT ![r] = "failed"]
                  /\ UNCHANGED inserted_id
    /\ UNCHANGED <<dbenv, persistence, diag, env, inbox, appointment, sheet_ws,
                   whatsapp_sid, sheets, whatsapp>>

\* try: inserted_id = create_document(...) except Exception: raise HTTPException
Persist(r) ==
    /\ pc[r] = "persist"
    /\ \E o \in CreateDocumentOutcomes :
          /\ db' = [db EXCEPT ![r] = [calls |-> @.calls + 1,
                                      ok |-> @.ok + (IF o.ok THEN 1 ELSE 0),
                                      id |-> o.id]]
          /\ IF o.ok
             THEN /\ inserted_id' = [inserted_id EXCEPT ![r] = o.id]
                  /\ pc' = [pc EXCEPT ![r] = "sheets"]
                  /\ UNCHANGED response
             ELSE /\ response' = [response EXCEPT ![r] = DatabaseError(o.err)]
                  /\ pc' = [pc EXCEPT ![r] = "failed"]
                  /\ UNCHANGED inserted_id
    /\ UNCHANGED <<dbenv, persistence, diag, env, inbox, appointment, sheet_ws, whatsapp_sid, sheets, whatsapp>>

\* faulty variant: an exception of the adapter is not caught and ends the
\* request with a server error
SheetsNoCatch(r) ==
    /\ pc[r] = "sheets"
    /\ \E f \in OpenFaults :
          LET out == OpenSpreadsheet(env[r], f)
          IN /\ sheets' = [sheets EXCEPT ![r] =
                    [@ EXCEPT !.calls = @ + 1,
                              !.attempts = @ + (IF out.attempted THEN 1 ELSE 0),
                              !.fault = out.fault]]
             /\ IF out.fault = "none"
                THEN /\ pc' = [pc EXCEPT ![r] =
                            IF out.opened THEN "worksheet" ELSE "whatsapp"]
                     /\ UNCHANGED response
                ELSE /\ pc' = [pc EXCEPT ![r] = "failed"]
                     /\ response' = [response EXCEPT ![r] = [status |-> 500, detail |-> <<>>]]
    /\ UNCHANGED <<dbenv, persistence, diag, env, inbox, appointment, inserted_id, sheet_ws,
                   whatsapp_sid, db, whatsapp>>

\* faulty variant: a failed attempt is tried again
SheetsRetry(r) ==
    /\ pc[r] = "sheets"
    /\ \E f \in OpenFaults :
          LET out == OpenSpreadsheet(env[r], f)
          IN /\ sheets' = [sheets EXCEPT ![r] =
                    [@ EXCEPT !.calls = @ + 1,
                              !.attempts = @ + (IF out.attempted THEN 1 ELSE 0),
                              !.fault = out.fault]]
             /\ pc' = [pc EXCEPT ![r] =
                    IF out.opened THEN "worksheet"
                    ELSE IF out.fault # "none" /\ sheets[r].calls = 0 THEN "sheets"
                    ELSE "whatsapp"]
    /\ UNCHANGED <<dbenv, persistence, diag, env, inbox, appointment, inserted_id, sheet_ws,
                   whatsapp_sid, response, db, whatsapp>>

\* sheet_ws = _append_to_google_sheets(appointment), up to gc.open: the
\* adapter returns None at its configuration check or from its except
\* clause, or it has opened the spreadsheet
Sheets(r) ==
    /\ pc[r] = "sheets"
    /\ \E f \in OpenFaults :
          LET out == OpenSpreadsheet(env[r], f)
          IN /\ sheets' = [sheets EXCEPT ![r] =
                    [@ EXCEPT !.calls = @ + 1,
                              !.attempts = @ + (IF out.attempted THEN 1 ELSE 0),
                              !.fault = out.fault]]
             /\ pc' = [pc EXCEPT ![r] =
                    IF out.opened THEN "worksheet" ELSE "whatsapp"]
    /\ UNCHANGED <<dbenv, persistence, diag, env, inbox, appointment, inserted_id, sheet_ws,
                   whatsapp_sid, response, db, whatsapp>>

\* try: ws = sh.worksheet(worksheet_name); except Exception: go on to
\* sh.sheet1
SheetsWorksheet(r) ==
    /\ pc[r] = "worksheet"
    /\ \E x \in LookupWorlds :
          LET worksheet_name == GetenvDefault(env[r], "GOOGLE_SHEETS_WORKSHEET", "Sheet1")
              lookup == WorksheetLookup(x, worksheet_name)
          IN IF WorksheetFound(x, worksheet_name)
             THEN /\ sheets' = [sheets EXCEPT ![r] =
                         [@ EXCEPT !.lookup = lookup, !.ws = worksheet_name]]
                  /\ pc' = [pc EXCEPT ![r] = "append_row"]
             ELSE /\ sheets' = [sheets EXCEPT ![r] = [@ EXCEPT !.lookup = lookup]]
                  /\ pc' = [pc EXCEPT ![r] = "sheet1"]
    /\ UNCHANGED <<dbenv, persistence, diag, env, inbox, appointment, inserted_id, sheet_ws,
                   whatsapp_sid, response, db, whatsapp>>

\* ws = sh.sheet1: the first worksheet, or the outer except clause
SheetsSheet1(r) ==
    /\ pc[r] = "sheet1"
    /\ \E raises \in BOOLEAN, first \in FirstTitles :
          IF raises
          THEN /\ sheets' = [sheets EXCEPT ![r] = [@ EXCEPT !.fault = "sheet1"]]
               /\ pc' = [pc EXCEPT ![r] = "whatsapp"]
          ELSE /\ sheets' = [sheets EXCEPT ![r] = [@ EXCEPT !.ws = first]]
               /\ pc' = [pc EXCEPT ![r] = "append_row"]
    /\ UNCHANGED <<dbenv, persistence, diag, env, inbox, appointment, inserted_id, sheet_ws,
                   whatsapp_sid, response, db, whatsapp>>

\* ws.append_row([...]); return ws.title, or the outer except clause
SheetsAppendRow(r) ==
    /\ pc[r] = "append_row"
    /\ \E w \in AppendWorlds :
          LET row == [ws |-> sheets[r].ws, cells |-> SheetRow(appointment[r])]
          IN /\ sheets' = [sheets EXCEPT ![r] =
                    [@ EXCEPT !.fault = IF w.raises THEN "append" ELSE @,
                              !.rows = IF w.written THEN Append(@, row) ELSE @]]
             /\ IF w.raises
                THEN UNCHANGED sheet_ws
                ELSE sheet_ws' = [sheet_ws EXCEPT ![r] = sheets[r].ws]
    /\ pc' = [pc EXCEPT ![r] = "whatsapp"]
    /\ UNCHANGED <<dbenv, persistence, diag, env, inbox, appointment, inserted_id,
                   whatsapp_sid, response, db, whatsapp>>

\* faulty variant: a failed send is tried again
WhatsappRetry(r) ==
    /\ pc[r] = "whatsapp"
    /\ \E y \in WhatsappWorlds :
          LET out == SendWhatsappNotification(env[r], appointment[r], y)
          IN /\ whatsapp_sid' = [whatsapp_sid EXCEPT ![r] = out.ret]
             /\ whatsapp' = [whatsapp EXCEPT ![r] =
                    [calls |-> @.calls + 1,
                     attempts |-> @.attempts + (IF out.attempted THEN 1 ELSE 0),
                     fault |-> out.fault,
                     msgs |-> @.msgs \o out.msgs]]
             /\ pc' = [pc EXCEPT ![r] =
                    IF out.fault # "none" /\ whatsapp[r].calls = 0
                    THEN "whatsapp" ELSE "respond"]
    /\ UNCHANGED <<dbenv, persistence, diag, env, inbox, appointment, inserted_id, sheet_ws, response, db, sheets>>

\* faulty variant: the message is sent only when the row was appended
WhatsappAfterSheetsOnly(r) ==
    /\ pc[r] = "whatsapp"
    /\ \E y \in WhatsappWorlds :
          LET out == IF Bool(sheet_ws[r])
                     THEN SendWhatsappNotification(env[r], appointment[r], y)
                     ELSE WhatsappSkipped
          IN /\ whatsapp_sid' = [whatsapp_sid EXCEPT ![r] = out.ret]
             /\ whatsapp' = [whatsapp EXCEPT ![r] =
                    [calls |-> @.calls + 1,
                     attempts |-> @.attempts + (IF out.attempted THEN 1 ELSE 0),
                     fault |-> out.fault,
                     msgs |-> @.msgs \o out.msgs]]
    /\ pc' = [pc EXCEPT ![r] = "respond"]
    /\ UNCHANGED <<dbenv, persistence, diag, env, inbox, appointment, inserted_id, sheet_ws, response, db, sheets>>

\* whatsapp_sid = _send_whatsapp_notification(appointment)
Whatsapp(r) ==
    /\ pc[r] = "whatsapp"
    /\ \E y \in WhatsappWorlds :
          LET out == SendWhatsappNotification(env[r], appointment[r], y)
          IN /\ whatsapp_sid' = [whatsapp_sid EXCEPT ![r] = out.ret]
             /\ whatsapp' = [whatsapp EXCEPT ![r] =
                    [calls |-> @.calls + 1,
                     attempts |-> @.attempts + (IF out.attempted THEN 1 ELSE 0),
                     fault |-> out.fault,
                     msgs |-> @.msgs \o out.msgs]]
    /\ pc' = [pc EXCEPT ![r] = "respond"]
    /\ UNCHANGED <<dbenv, persistence, diag, env, inbox, appointment, inserted_id, sheet_ws, response, db, sheets>>

\* faulty variant: the response carries the message identifier as id
RespondWithSid(r) ==
    /\ pc[r] = "respond"
    /\ response' = [response EXCEPT ![r] =
          SuccessResponse(whatsapp_sid[r], sheet_ws[r], whatsapp_sid[r])]
    /\ pc' = [pc EXCEPT ![r] = "done"]
    /\ UNCHANGED <<dbenv, persistence, diag, env, inbox, appointment, inserted_id, sheet_ws, whatsapp_sid, db, sheets, whatsapp>>

\* return {"ok": True, "id": ..., "google_sheets": ..., "whatsapp": ...}
Respond(r) ==
    /\ pc[r] = "respond"
    /\ response' = [response EXCEPT ![r] =
          SuccessResponse(inserted_id[r], sheet_ws[r], whatsapp_sid[r])]
    /\ pc' = [pc EXCEPT ![r] = "done"]
    /\ UNCHANGED <<dbenv, persistence, diag, env, inbox, appointment, inserted_id, sheet_ws, whatsapp_sid, db, sheets, whatsapp>>

Next ==
    \/ \E r \in Runs : Submit(r)
    \/ \E r \in Runs : Persist(r)
    \/ \E r \in Runs : Sheets(r)
    \/ \E r \in Runs : SheetsWorksheet(r)
    \/ \E r \in Runs : SheetsSheet1(r)
    \/ \E r \in Runs : SheetsAppendRow(r)
    \/ \E r \in Runs : Whatsapp(r)
    \/ \E r \in Runs : Respond(r)

Spec == Init /\ [][Next]_vars

\* environments of the paired runs: each channel unconfigured, configured
\* with a malformed blob, or configured
PairEnvs ==
    {e \in Envs :
        /\ e.GOOGLE_SHEETS_SPREADSHEET = "Clinic"
        /\ e.GOOGLE_SHEETS_WORKSHEET = NONE
        /\ e.TWILIO_ACCOUNT_SID = "v"
        /\ e.TWILIO_AUTH_TOKEN = "v"
        /\ e.TWILIO_WHATSAPP_FROM = "v"}

\* bodies of the paired runs
PairBodies == {b \in Bodies : ValidAppointment(b) /\ b.date = NONE}

\* two runs of the handler on the same body, each in its own environment
InitPair ==
    /\ \E e \in [Runs -> PairEnvs], body \in PairBodies :
          InitWith(e, [r \in Runs |-> body], Runs)
    /\ ProbeOff

SpecPair == InitPair /\ [][Next]_vars

\* bodies of two concurrent submissions: the paired ones and one that does
\* not validate
ConcBodies == PairBodies \cup {NoAppointment}

\* two submissions handled concurrently by one process, in one environment
InitConc ==
    /\ \E e \in PairEnvs, box \in [Runs -> ConcBodies] :
          InitWith([r \in Runs |-> e], box, Runs)
    /\ ProbeOff

SpecConc == InitConc /\ [][Next]_vars

\* environments of the submission that is in flight during a probe
ProbeEnvs ==
    {e \in PairEnvs :
        /\ e.GOOGLE_SERVICE_ACCOUNT_JSON \in {NONE, "{service account}"}
        /\ e.WHATSAPP_TO \in {NONE, "v"}}

\* a GET /test request arrives while one submission is handled
InitProbe ==
    /\ \E e \in ProbeEnvs, body \in PairBodies :
          InitWith([r \in Runs |-> e],
                   [r \in Runs |-> IF r = 1 THEN body ELSE NoAppointment], {1})
    /\ ProbeArrives

NextProbe == Next \/ GetTest

SpecProbe == InitProbe /\ [][NextProbe]_vars

\* the next step of the handler of submission r
Handle(r) ==
    \/ Submit(r) \/ Persist(r)
    \/ Sheets(r) \/ SheetsWorksheet(r) \/ SheetsSheet1(r) \/ SheetsAppendRow(r)
    \/ Whatsapp(r) \/ Respond(r)

\* two submissions, valid or not, in one environment
InitLive ==
    /\ \E e \in ProbeEnvs, box \in [Runs -> ConcBodies] :
          InitWith([r \in Runs |-> e], box, Runs)
    /\ ProbeOff

\* every external call returns or raises, and the server goes on running
\* each handler: no handler waits for ever at a step it can take
SpecLive == InitLive /\ [][Next]_vars /\ \A r \in Runs : WF_vars(Handle(r))

---------------------------------------------------------------------------
(* Properties of POST /appointments *)

\* the handler of r has passed the call of the spreadsheet adapter
AfterSheets(r) == pc[r] \in {"whatsapp", "respond", "done"}

\* the handler of r has passed the call of the messaging adapter
AfterWhatsapp(r) == pc[r] \in {"respond", "done"}

\* C1: every call of the spreadsheet or messaging adapter for a request
\* happens in a state where the insert of that request has already returned
\* an identifier; and a request whose insert failed has no adapter call, no
\* attempt, no row and no message.
C1_PersistBeforeDelivery ==
    /\ [](\A r \in Runs :
            db[r].calls > db[r].ok =>
                /\ sheets[r] = NoSheets
                /\ whatsapp[r] = NoWhatsapp)
    /\ [][\A r \in Runs :
            (sheets'[r] # sheets[r] \/ whatsapp'[r] # whatsapp[r]) =>
                /\ db[r].calls = 1
                /\ db[r].ok = 1
                /\ inserted_id[r] = db[r].id
                /\ db[r].id \in Ids]_vars

\* C1 witness: both adapters made a delivery attempt after the insert returned
C1_Witness ==
    \E r \in Runs :
        /\ db[r].ok = 1
        /\ sheets[r].attempts = 1
        /\ whatsapp[r].attempts = 1

\* C2: after a successful insert no failure inside an adapter ends the
\* request with an error: whatever step of either adapter failed (the
\* libraries, a malformed credential blob, the credentials, opening the
\* spreadsheet, the worksheet, the append, the message creation), the
\* request is never answered with an error, it ends with status 200, ok=true
\* and the identifier the insert returned, and the flag of a channel whose
\* adapter failed is false.
C2_AdapterFaultsContained ==
    \A r \in Runs :
        /\ (sheets[r].fault # "none" \/ whatsapp[r].fault # "none") =>
              /\ pc[r] \in {"whatsapp", "respond", "done"}
              /\ response[r].status \in {0, 200}
        /\ pc[r] = "done" =>
              /\ response[r].status = 200
              /\ response[r].ok = TRUE
              /\ response[r].id = db[r].id
              /\ db[r].ok = 1
              /\ sheets[r].fault # "none" => response[r].google_sheets = FALSE
              /\ whatsapp[r].fault # "none" => response[r].whatsapp = FALSE

\* C2 witness: a request answered after the spreadsheet adapter failed on a
\* malformed credential blob and the messaging adapter on the provider
C2_Witness ==
    \E r \in Runs :
        /\ pc[r] = "done"
        /\ sheets[r].fault = "json"
        /\ whatsapp[r].fault = "create"

\* C3: when the insert fails, the request ends with status 500 and a detail
\* that begins with "Database error: ", has no identifier and is never
\* answered with ok=true.
C3_PersistenceFailureIs500 ==
    \A r \in Runs :
        db[r].calls > db[r].ok =>
            /\ pc[r] = "failed"
            /\ response[r].status = 500
            /\ StartsWith(response[r].detail, DatabaseErrorPrefix)
            /\ inserted_id[r] = NONE

\* C3 witness: an insert failed with a non-empty exception text
C3_Witness ==
    \E r \in Runs :
        /\ db[r].calls = 1 /\ db[r].ok = 0
        /\ response[r].status = 500
        /\ Len(response[r].detail) > Len(DatabaseErrorPrefix)

\* the credential blob or the spreadsheet name is unset or empty
SheetsAbsent(e) ==
    \/ e.GOOGLE_SERVICE_ACCOUNT_JSON \in {NONE, ""}
    \/ e.GOOGLE_SHEETS_SPREADSHEET \in {NONE, ""}

\* all four messaging values are set and non-empty
TwilioPresent(e) ==
    /\ e.TWILIO_ACCOUNT_SID \notin {NONE, ""}
    /\ e.TWILIO_AUTH_TOKEN \notin {NONE, ""}
    /\ e.TWILIO_WHATSAPP_FROM \notin {NONE, ""}
    /\ e.WHATSAPP_TO \notin {NONE, ""}

\* C4 as stated: with the spreadsheet configuration absent the handler does
\* not call the spreadsheet adapter at all, nothing is appended and
\* google_sheets is false.
C4_Original ==
    \A r \in Runs :
        SheetsAbsent(env[r]) =>
            /\ sheets[r].calls = 0
            /\ sheets[r].attempts = 0
            /\ sheets[r].rows = <<>>
            /\ pc[r] = "done" => response[r].google_sheets = FALSE

\* C4 amended: with the credential blob or the spreadsheet name unset or
\* empty, the handler still calls the adapter once, the adapter returns None
\* at its own configuration check before any external call (no attempt, no
\* row), and google_sheets is false.
C4_AbsentConfigSkipsInsideAdapter ==
    \A r \in Runs :
        SheetsAbsent(env[r]) =>
            /\ AfterSheets(r) => sheets[r].calls = 1 /\ sheet_ws[r] = NONE
            /\ sheets[r].attempts = 0
            /\ sheets[r].fault = "none"
            /\ sheets[r].rows = <<>>
            /\ pc[r] = "done" => response[r].google_sheets = FALSE

\* C4 witness: a request answered although only the spreadsheet name is missing
C4_Witness ==
    \E r \in Runs :
        /\ pc[r] = "done"
        /\ env[r].GOOGLE_SERVICE_ACCOUNT_JSON = "{service account}"
        /\ env[r].GOOGLE_SHEETS_SPREADSHEET = NONE
        /\ sheets[r].calls = 1
        /\ response[r].google_sheets = FALSE

\* C5: a message send is attempted exactly when all four messaging values
\* are set and non-empty; when one of them is unset or empty nothing is
\* attempted, no message is created and whatsapp is false.
C5_MessagingNeedsAllFour ==
    \A r \in Runs :
        /\ AfterWhatsapp(r) =>
              (whatsapp[r].attempts = 1 <=> TwilioPresent(env[r]))
        /\ ~TwilioPresent(env[r]) =>
              /\ whatsapp[r].attempts = 0
              /\ whatsapp[r].msgs = <<>>
              /\ whatsapp_sid[r] = NONE
              /\ pc[r] = "done" => response[r].whatsapp = FALSE

\* C5 witness: a request answered with three values set and the recipient empty
C5_Witness ==
    \E r \in Runs :
        /\ pc[r] = "done"
        /\ env[r].TWILIO_ACCOUNT_SID = "v"
        /\ env[r].TWILIO_AUTH_TOKEN = "v"
        /\ env[r].TWILIO_WHATSAPP_FROM = "v"
        /\ env[r].WHATSAPP_TO = ""
        /\ whatsapp[r].calls = 1
        /\ response[r].whatsapp = FALSE

\* the worksheet name the adapter uses: "Sheet1" when the variable is unset
WorksheetName(e) ==
    IF e.GOOGLE_SHEETS_WORKSHEET = NONE THEN "Sheet1" ELSE e.GOOGLE_SHEETS_WORKSHEET

\* C6 as stated: the spreadsheet channel is attempted if and only if the
\* credential blob, the spreadsheet name and the worksheet name (with its
\* fallback when unset) are all non-empty.
C6_Original ==
    \A r \in Runs :
        AfterSheets(r) =>
            (sheets[r].attempts = 1 <=>
                /\ ~SheetsAbsent(env[r])
                /\ WorksheetName(env[r]) # "")

\* C6 amended: the spreadsheet channel is attempted if and only if the
\* credential blob and the spreadsheet name are both set and non-empty; the
\* worksheet name takes no part in the check: it is "Sheet1" only when the
\* variable is unset, and a worksheet name that is set but empty still
\* leads to an attempt (whose row can only go to the first worksheet).
C6_SheetsNeedsBlobAndName ==
    \A r \in Runs :
        AfterSheets(r) =>
            /\ sheets[r].attempts = 1 <=> ~SheetsAbsent(env[r])
            /\ \A i \in DOMAIN sheets[r].rows :
                  /\ sheets[r].rows[i].ws \in {WorksheetName(env[r])} \cup FirstTitles
                  /\ env[r].GOOGLE_SHEETS_WORKSHEET = "" =>
                        sheets[r].rows[i].ws \in FirstTitles

\* C6 witness: a row appended although the worksheet name is set but empty
C6_Witness ==
    \E r \in Runs :
        /\ env[r].GOOGLE_SHEETS_WORKSHEET = ""
        /\ sheets[r].attempts = 1
        /\ Len(sheets[r].rows) = 1

\* the messaging part and the spreadsheet part of an environment
TwilioPart(e) ==
    <<e.TWILIO_ACCOUNT_SID, e.TWILIO_AUTH_TOKEN, e.TWILIO_WHATSAPP_FROM, e.WHATSAPP_TO>>

SheetsPart(e) ==
    <<e.GOOGLE_SERVICE_ACCOUNT_JSON, e.GOOGLE_SHEETS_SPREADSHEET, e.GOOGLE_SHEETS_WORKSHEET>>

\* C7: two answered runs of the same request that have the same messaging
\* configuration and met the same messaging fault made the same number of
\* messaging attempts, sent the same messages (when the provider created as
\* many for both) and report the same whatsapp flag, however their
\* spreadsheet configurations and spreadsheet outcomes differ; and the same
\* with the two channels exchanged.
C7_ChannelsIndependent ==
    \A r1, r2 \in Runs :
        (pc[r1] = "done" /\ pc[r2] = "done" /\ appointment[r1] = appointment[r2]) =>
            /\ (/\ TwilioPart(env[r1]) = TwilioPart(env[r2])
                /\ whatsapp[r1].fault = whatsapp[r2].fault) =>
                  /\ whatsapp[r1].calls = whatsapp[r2].calls
                  /\ whatsapp[r1].attempts = whatsapp[r2].attempts
                  /\ Len(whatsapp[r1].msgs) = Len(whatsapp[r2].msgs) =>
                        whatsapp[r1].msgs = whatsapp[r2].msgs
                  /\ response[r1].whatsapp = response[r2].whatsapp
            /\ (/\ SheetsPart(env[r1]) = SheetsPart(env[r2])
                /\ sheets[r1].fault = sheets[r2].fault) =>
                  /\ sheets[r1].calls = sheets[r2].calls
                  /\ sheets[r1].attempts = sheets[r2].attempts
                  /\ response[r1].google_sheets = response[r2].google_sheets

\* C7 witness: two answered runs with the same messaging configuration, both
\* with a message sent, one with the spreadsheet channel unconfigured and one
\* whose spreadsheet attempt failed
C7_Witness ==
    /\ pc[1] = "done" /\ pc[2] = "done"
    /\ TwilioPart(env[1]) = TwilioPart(env[2])
    /\ sheets[1].attempts = 0
    /\ sheets[2].attempts = 1 /\ sheets[2].fault = "open"
    /\ response[1].whatsapp = TRUE /\ response[2].whatsapp = TRUE

\* C8: the insert, each adapter, each delivery attempt, the row and the
\* message happen at most once per request; a request that is answered with
\* success had exactly one insert and exactly one attempt on each configured
\* channel, also when that attempt failed.
C8_ExactlyOnce ==
    \A r \in Runs :
        /\ db[r].calls <= 1
        /\ sheets[r].calls <= 1 /\ sheets[r].attempts <= 1
        /\ whatsapp[r].calls <= 1 /\ whatsapp[r].attempts <= 1
        /\ Len(sheets[r].rows) <= 1
        /\ Len(whatsapp[r].msgs) <= 1
        /\ pc[r] = "done" =>
              /\ db[r].calls = 1
              /\ sheets[r].attempts = (IF SheetsAbsent(env[r]) THEN 0 ELSE 1)
              /\ whatsapp[r].attempts = (IF TwilioPresent(env[r]) THEN 1 ELSE 0)

\* C8 witness: a request answered after both of its attempts failed
C8_Witness ==
    \E r \in Runs :
        /\ pc[r] = "done"
        /\ sheets[r].attempts = 1 /\ sheets[r].fault = "append"
        /\ whatsapp[r].attempts = 1 /\ whatsapp[r].fault = "create"

\* the adapter's call for r returned a value: it was attempted and nothing
\* raised
SheetsReturned(r) == sheets[r].attempts = 1 /\ sheets[r].fault = "none"

WhatsappReturned(r) == whatsapp[r].attempts = 1 /\ whatsapp[r].fault = "none"

\* C9 as stated: in a success response google_sheets is true exactly when
\* one row was appended for the request, and whatsapp is true exactly when
\* one message was created; a flag is false exactly when the channel was
\* not attempted or its attempt failed.
C9_Original ==
    \A r \in Runs :
        pc[r] = "done" =>
            /\ response[r].google_sheets = TRUE <=> Len(sheets[r].rows) = 1
            /\ response[r].whatsapp = TRUE <=> Len(whatsapp[r].msgs) = 1
            /\ response[r].google_sheets = FALSE <=>
                  (sheets[r].attempts = 0 \/ sheets[r].fault # "none")
            /\ response[r].whatsapp = FALSE <=>
                  (whatsapp[r].attempts = 0 \/ whatsapp[r].fault # "none")

\* C9 amended: in a success response a flag is true exactly when the
\* adapter's attempt returned without raising, and then exactly one row was
\* appended (one message created); a flag is false exactly when the channel
\* was not attempted or its attempt raised.  A false flag does not say that
\* nothing was written: when ws.append_row or messages.create raises after
\* the service accepted the request, the row or message exists and the flag
\* is false; no other failure leaves a row or a message.
C9_FlagsReflectReturn ==
    \A r \in Runs :
        pc[r] = "done" =>
            /\ response[r].google_sheets = TRUE <=> SheetsReturned(r)
            /\ response[r].whatsapp = TRUE <=> WhatsappReturned(r)
            /\ response[r].google_sheets = TRUE => Len(sheets[r].rows) = 1
            /\ response[r].whatsapp = TRUE => Len(whatsapp[r].msgs) = 1
            /\ response[r].google_sheets = FALSE <=>
                  (sheets[r].attempts = 0 \/ sheets[r].fault # "none")
            /\ response[r].whatsapp = FALSE <=>
                  (whatsapp[r].attempts = 0 \/ whatsapp[r].fault # "none")
            /\ (response[r].google_sheets = FALSE /\ sheets[r].rows # <<>>) =>
                  sheets[r].fault = "append"
            /\ (response[r].whatsapp = FALSE /\ whatsapp[r].msgs # <<>>) =>
                  whatsapp[r].fault = "create"

\* C9 witness: a response with google_sheets true after the row was
\* appended, and whatsapp false although the message was created, because
\* messages.create raised afterwards
C9_Witness ==
    \E r \in Runs :
        /\ pc[r] = "done"
        /\ response[r].google_sheets = TRUE /\ Len(sheets[r].rows) = 1
        /\ response[r].whatsapp = FALSE
        /\ whatsapp[r].fault = "create" /\ Len(whatsapp[r].msgs) = 1

\* C10: once the insert of a valid request has succeeded the request is
\* never answered with an error, and its response has status 200, ok=true
\* and as id the non-empty identifier that the insert returned.
C10_SuccessCarriesInsertedId ==
    \A r \in Runs :
        db[r].ok = 1 =>
            /\ ValidAppointment(appointment[r])
            /\ response[r].status \in {0, 200}
            /\ pc[r] = "done" =>
                  /\ response[r].status = 200
                  /\ response[r].ok = TRUE
                  /\ response[r].id # ""
                  /\ response[r].id # NONE
                  /\ response[r].id = db[r].id

\* C10 witness: a response carrying the second identifier, for a request
\* without date and notes
C10_Witness ==
    \E r \in Runs :
        /\ pc[r] = "done"
        /\ appointment[r].date = NONE /\ appointment[r].notes = NONE
        /\ response[r].id = IdPool[NumIds]

\* a required field of the body is missing
MissingRequired(b) == NONE \in {b.name, b.email, b.phone, b.department}

\* C11: a submission whose body lacks a required field is answered with the
\* client error 422 and with nothing else, and at no time has an insert, an
\* adapter call, a row or a message.
C11_InvalidBodyHasNoSideEffect ==
    \A r \in Runs :
        MissingRequired(inbox[r]) =>
            /\ pc[r] \in {"off", "idle", "rejected"}
            /\ pc[r] = "rejected" <=> response[r] # NoResponse
            /\ pc[r] = "rejected" =>
                  response[r].status >= 400 /\ response[r].status < 500
            /\ appointment[r] = NoAppointment
            /\ inserted_id[r] = NONE
            /\ db[r] = NoCalls
            /\ sheets[r] = NoSheets
            /\ whatsapp[r] = NoWhatsapp

\* C11 witness: a body without email was rejected in an environment with
\* both channels configured
C11_Witness ==
    \E r \in Runs :
        /\ pc[r] = "rejected"
        /\ inbox[r].email = NONE /\ inbox[r].name # NONE
        /\ ~SheetsAbsent(env[r]) /\ TwilioPresent(env[r])

\* C14: a spreadsheet attempt appends exactly one row; the row goes to the
\* worksheet with the configured name when that worksheet exists and to the
\* first worksheet when it does not; and the value returned is the title of
\* the worksheet that received the row.
C14_Original ==
    \A r \in Runs :
        (AfterSheets(r) /\ sheets[r].attempts = 1 /\ sheets[r].fault = "none") =>
            /\ Len(sheets[r].rows) = 1
            /\ sheet_ws[r] = sheets[r].rows[1].ws
            /\ sheets[r].lookup \in {"found", "error"} =>
                  sheets[r].rows[1].ws = WorksheetName(env[r])
            /\ sheets[r].lookup = "missing" =>
                  sheets[r].rows[1].ws \in FirstTitles

\* an optional field as the channels show it: the text d when it is absent
Shown(v, d) == IF v = NONE THEN d ELSE v

\* C15: every appended row has exactly six cells, in the order name, email,
\* phone, department, date, notes, with date and notes the empty string when
\* absent; every message body has the heading and one line for each of the
\* six fields in that order, with date and notes shown as "-" when absent;
\* and no cell or line holds the null sentinel.
C15_NoNullInChannelOutput ==
    \A r \in Runs :
        LET a == appointment[r]
        IN /\ \A i \in DOMAIN sheets[r].rows :
                LET cells == sheets[r].rows[i].cells
                IN /\ Len(cells) = 6
                   /\ cells[1] = a.name /\ cells[2] = a.email
                   /\ cells[3] = a.phone /\ cells[4] = a.department
                   /\ cells[5] = Shown(a.date, "")
                   /\ cells[6] = Shown(a.notes, "")
                   /\ \A k \in 1..6 : cells[k] # NONE
           /\ \A i \in DOMAIN whatsapp[r].msgs :
                LET body == whatsapp[r].msgs[i].body
                IN /\ Len(body) = 7
                   /\ body[2] = <<"Name: ", a.name>>
                   /\ body[3] = <<"Email: ", a.email>>
                   /\ body[4] = <<"Phone: ", a.phone>>
                   /\ body[5] = <<"Department: ", a.department>>
                   /\ body[6][1] = "Date: " /\ body[7][1] = "Notes: "
                   /\ a.date = NONE => body[6][2] = "-"
                   /\ a.notes = NONE => body[7][2] = "-"
                   /\ a.date \notin {NONE, ""} => body[6][2] = a.date
                   /\ a.notes \notin {NONE, ""} => body[7][2] = a.notes
                   /\ \A k \in 2..7 : body[k][2] # NONE

\* C15 witness: a row appended and a message created for a request without
\* date and notes
C15_Witness ==
    \E r \in Runs :
        /\ appointment[r].date = NONE /\ appointment[r].notes = NONE
        /\ Len(sheets[r].rows) = 1
        /\ Len(whatsapp[r].msgs) = 1

\* the three ways a submission ends
Terminal == {"rejected", "failed", "done"}

\* the steps that may follow a step of the handler
Follows(p) ==
    CASE p = "idle" -> {"persist", "rejected"}
      [] p = "persist" -> {"sheets", "failed"}
      [] p = "sheets" -> {"worksheet", "whatsapp"}
      [] p = "worksheet" -> {"append_row", "sheet1"}
      [] p = "sheet1" -> {"append_row", "whatsapp"}
      [] p = "append_row" -> {"whatsapp"}
      [] p = "whatsapp" -> {"respond"}
      [] p = "respond" -> {"done"}
      [] OTHER -> {}

\* the status of the response a submission at step p has been given
StatusAt(p) ==
    CASE p = "rejected" -> 422
      [] p = "failed" -> 500
      [] p = "done" -> 200
      [] OTHER -> 0


RunState(r) ==
    <<appointment[r], inserted_id[r], sheet_ws[r], whatsapp_sid[r], response[r],
      db[r], sheets[r], whatsapp[r]>>

\* the outcome of submission r is the one it has when handled alone with the
\* same body, environment and external results
AsIfAlone(r) ==
    /\ pc[r] = "rejected" =>
          /\ MissingRequired(inbox[r])
          /\ response[r] = [status |-> 422]
          /\ db[r] = NoCalls /\ sheets[r] = NoSheets /\ whatsapp[r] = NoWhatsapp
    /\ pc[r] = "failed" =>
          /\ db[r].calls = 1 /\ db[r].ok = 0
          /\ response[r].status = 500
          /\ sheets[r] = NoSheets /\ whatsapp[r] = NoWhatsapp
    /\ pc[r] \in {"sheets", "worksheet", "sheet1", "append_row",
                "whatsapp", "respond", "done"} =>
          /\ appointment[r] = inbox[r]
          /\ inserted_id[r] = db[r].id
    /\ pc[r] = "done" =>
          /\ db[r].calls = 1 /\ db[r].ok = 1
          /\ sheets[r].calls = 1
          /\ sheets[r].attempts = (IF SheetsAbsent(env[r]) THEN 0 ELSE 1)
          /\ whatsapp[r].calls = 1
          /\ whatsapp[r].attempts = (IF TwilioPresent(env[r]) THEN 1 ELSE 0)
          /\ \A i \in DOMAIN sheets[r].rows :
                sheets[r].rows[i].cells[6] =
                    (IF inbox[r].notes = NONE THEN "" ELSE inbox[r].notes)
          /\ \A i \in DOMAIN whatsapp[r].msgs :
                whatsapp[r].msgs[i].body[7][2] =
                    (IF inbox[r].notes = NONE THEN "-" ELSE inbox[r].notes)
          /\ response[r] =
                [status |-> 200, ok |-> TRUE, id |-> db[r].id,
                 google_sheets |-> (sheets[r].attempts = 1 /\ sheets[r].fault = "none"),
                 whatsapp |-> (whatsapp[r].attempts = 1 /\ whatsapp[r].fault = "none")]

\* C13: with two submissions handled concurrently in one process, in every
\* interleaving of their steps, no step changes the environment or the
\* bodies, a step changes the state of one submission only, and every
\* submission ends with the response and the insert, rows and messages it
\* has when handled alone with the same external results.
C13_ConcurrentSubmissionsIndependent ==
    /\ [](\A r \in Runs : AsIfAlone(r))
    /\ [][/\ env' = env /\ inbox' = inbox /\ dbenv' = dbenv
          /\ \A r \in Runs : pc'[r] = pc[r] => RunState(r)' = RunState(r)
          /\ \E r \in Runs : \A q \in Runs \ {r} : pc'[q] = pc[q]]_vars

\* C13 witness: two submissions with different notes and different
\* identifiers, the first answered with its row appended while the second
\* is inside the spreadsheet adapter, holding its worksheet and about to
\* append
C13_Witness ==
    /\ pc[1] = "done" /\ pc[2] = "append_row"
    /\ inbox[1].notes # inbox[2].notes
    /\ db[1].id # db[2].id
    /\ Len(sheets[1].rows) = 1

\* C17: provided every external call returns or raises, every submission
\* ends: it reaches one of the three terminal outcomes, validation error
\* (422), persistence error (500) or success (200), and has the response
\* of that outcome and of no other; the handler is linear: whenever
\* anything of a submission changes, the submission moves from its step to
\* a step that follows it, so no step is taken twice and nothing changes
\* after the outcome.
C17_TerminatesLinearly ==
    /\ \A r \in Runs : (pc[r] = "idle") ~> (pc[r] \in Terminal)
    /\ [](\A r \in Runs : response[r].status = StatusAt(pc[r]))
    /\ [][\A r \in Runs :
            (pc'[r] # pc[r] \/ RunState(r)' # RunState(r)) =>
                pc'[r] \in Follows(pc[r])]_vars

\* C17 witness: one submission has ended with success after its three
\* external calls, the spreadsheet one having failed, and the other has
\* ended with a persistence error
C17_Witness ==
    /\ pc[1] = "done" /\ pc[2] = "failed"
    /\ db[1].calls = 1 /\ sheets[1].calls = 1 /\ whatsapp[1].calls = 1
    /\ sheets[1].fault # "none"
    /\ response[1].status = 200 /\ response[2].status = 500

---------------------------------------------------------------------------
(* Properties of GET /test *)

\* the probe has answered
Probed == diag.pc = "done"

\* the status text the probe gives for each state of persistence
DescribesPersistence(text, w) ==
    IF w.import = "ImportError"
    THEN text = <<"(x) Database module not found (run enable-database first)">>
    ELSE IF w.import = "Exception"
    THEN text[1] = "(x) Error: "
    ELSE IF ~w.handle
    THEN text = <<"(!)  Available but not initialized">>
    ELSE IF w.listing = "raises"
    THEN text[1] = "(!)  Connected but Error: "
    ELSE text = <<"(ok) Connected & Working">>

\* C12: for every state of persistence (module missing, import failing,
\* handle uninitialised, listing failing, working) GET /test answers with
\* status 200 and a diagnostics object whose database field describes that
\* state; and the step of the probe changes nothing but its own answer: no
\* insert, no adapter call, no row, no message, no change of a submission in
\* flight and no change of the environment.
C12_ProbeNeverFailsNorMutates ==
    /\ [](Probed =>
            /\ diag.response.status = 200
            /\ diag.response.body.backend = "(ok) Running"
            /\ Len(diag.response.body.database) >= 1
            /\ DescribesPersistence(diag.response.body.database, persistence))
    /\ [][diag' # diag =>
            UNCHANGED <<env, dbenv, persistence, inbox, pc, appointment, inserted_id,
                        sheet_ws, whatsapp_sid, response, db, sheets, whatsapp>>]_vars

\* C12 witness: the probe answered with the database module missing while a
\* persisted submission was inside the spreadsheet adapter, between the
\* worksheet lookup and the append
C12_Witness ==
    /\ Probed
    /\ persistence.import = "ImportError"
    /\ db[1].ok = 1
    /\ pc[1] = "append_row"

\* the marker of an environment entry: set and non-empty, or not
Presence(v) == IF v = NONE \/ v = "" THEN "(x) Not Set" ELSE "(ok) Set"

\* C16: in every answer of the probe, database_url and database_name are
\* the set / not-set markers of DATABASE_URL and DATABASE_NAME, for every
\* state of persistence; they are never the value of an entry nor the name
\* of the connected database.
C16_ProbeReportsPresenceOnly ==
    Probed =>
        /\ diag.response.body.database_url = Presence(dbenv.DATABASE_URL)
        /\ diag.response.body.database_name = Presence(dbenv.DATABASE_NAME)
        /\ diag.response.body.database_url \notin {NONE, "", dbenv.DATABASE_URL}
        /\ diag.response.body.database_name \notin
              {NONE, "", dbenv.DATABASE_NAME, persistence.name}

\* C16 witness: the probe answered with a connected database that has a
\* name while DATABASE_NAME is unset and DATABASE_URL is set
C16_Witness ==
    /\ Probed
    /\ persistence.handle /\ persistence.has_name
    /\ dbenv.DATABASE_NAME = NONE
    /\ dbenv.DATABASE_URL = "mongodb://h"
    /\ diag.response.body.database_name = "(x) Not Set"

\* t is the text e cut to at most n characters
IsCut(t, e, n) ==
    /\ Len(t) = (IF Len(e) <= n THEN Len(e) ELSE n)
    /\ \A i \in 1..Len(t) : t[i] = e[i]

\* C18: connection_status is "Connected" exactly when the import gave a
\* handle that is not None, whether or not the listing worked; when the
\* listing fails the answer differs from the initial one only in database,
\* which is the "Connected but Error" text followed by at most 50
\* characters of the exception text, and in connection_status (besides the
\* two environment markers): collections stays empty.
C18_ConnectedIffHandle ==
    Probed =>
        LET body == diag.response.body
            w == persistence
        IN /\ body.connection_status = "Connected" <=> (w.import = "ok" /\ w.handle)
           /\ body.connection_status \in {"Connected", "Not Connected"}
           /\ (w.import = "ok" /\ w.handle /\ w.listing = "raises") =>
                 /\ body.backend = InitialDiagnostics.backend
                 /\ body.collections = <<>>
                 /\ body.connection_status = "Connected"
                 /\ body.database[1] = "(!)  Connected but Error: "
                 /\ Len(body.database) <= 1 + 50
                 /\ IsCut(Tail(body.database), w.list_err, 50)

\* C18 witness: the listing failed with a text longer than 50 characters
C18_Witness ==
    /\ Probed
    /\ persistence.handle /\ persistence.listing = "raises"
    /\ Len(persistence.list_err) > 50
    /\ diag.response.body.connection_status = "Connected"

====
